---- MODULE Spec2Model ----
(***************************************************************************)
(* Scout: scheduled pipeline scrape -> analyze -> filter -> store -> email *)
(* with an in-memory run-state (scan_status) guarded by scan_lock.         *)
(*                                                                         *)
(* Strings are sequences of characters so that strip() and lower() are     *)
(* computed, not assumed.  Scores are in hundredths (4.0 is 400).  Fields  *)
(* that no branch of the code reads (description, source, domain, tags,    *)
(* raw_data, duration) are left out of rows, candidates and results.       *)
(***************************************************************************)
EXTENDS Integers, Sequences, FiniteSets, TLC

\* ------------------------------------------------------------------ bounds
MaxRuns == 2
MaxMarks == 1
MaxRows == 2
MaxSaveIn == 2
MaxFilterIn == 2
MaxBatches == 2
MaxDbRows == 3
MaxDbMarks == 2

\* ------------------------------------------------------- program constants
SCORE_THRESHOLD == 400
MIN_DIGEST_SCORE == 500
DIGEST_LIMIT == 5
BATCH_SIZE == 30
RSS_LIMIT == 25
REDDIT_LIMIT == 10
GUMROAD_LIMIT == 20

\* ----------------------------------------------------------------- strings
SP == " "
EMPTY == << >>
UNTITLED == <<"Untitled">>

LowerChar(c) ==
  CASE c = "A" -> "a"
    [] c = "B" -> "b"
    [] c = "C" -> "c"
    [] c = "Untitled" -> "untitled"
    [] OTHER -> c

Lower(s) == [i \in 1..Len(s) |-> LowerChar(s[i])]

RECURSIVE LStrip(_)
LStrip(s) == IF s # << >> /\ Head(s) = SP THEN LStrip(Tail(s)) ELSE s

RECURSIVE RStrip(_)
RStrip(s) ==
  IF s # << >> /\ s[Len(s)] = SP THEN RStrip(SubSeq(s, 1, Len(s) - 1)) ELSE s

Strip(s) == RStrip(LStrip(s))

\* -------------------------------------------------------------- candidates
\* A candidate is a Python dict; has_title and url_kind say which keys it has.
Cand(ht, t, uk, u, sc) ==
  [has_title |-> ht, title |-> t, url_kind |-> uk, url |-> u, score |-> sc]

\* opp.get('title', '')
GetTitle(opp) == IF opp.has_title THEN opp.title ELSE EMPTY

\* opp.get('url', ''): the string, '' when the key is missing
GetUrl(opp) == IF opp.url_kind = "str" THEN opp.url ELSE EMPTY

\* opp.get('title', 'Untitled')
InsertTitle(opp) == IF opp.has_title THEN opp.title ELSE UNTITLED

\* ------------------------------------------------------------------- store
\* WHERE url = ? OR title = ?  (SQL: a comparison with NULL is never true)
RowMatches(row, opp) ==
  \/ /\ opp.url_kind # "null"
     /\ ~row.url_null
     /\ row.url = GetUrl(opp)
  \/ row.title = GetTitle(opp)

Existing(tbl, opp) == \E i \in 1..Len(tbl) : RowMatches(tbl[i], opp)

NewRow(tbl, opp, t) ==
  [id |-> Len(tbl) + 1,
   title |-> InsertTitle(opp),
   url_null |-> (opp.url_kind = "null"),
   url |-> GetUrl(opp),
   score |-> opp.score,
   found_date |-> t,
   status |-> "new"]

\* The table after save_opportunities(opps) started at time t; each INSERT
\* reads the clock.
RECURSIVE SaveTable(_, _, _)
SaveTable(tbl, opps, t) ==
  IF opps = << >> THEN tbl
  ELSE IF Existing(tbl, Head(opps))
       THEN SaveTable(tbl, Tail(opps), t)
       ELSE SaveTable(Append(tbl, NewRow(tbl, Head(opps), t)), Tail(opps), t + 1)

\* added: one per INSERT executed.
RECURSIVE SaveAdded(_, _, _)
SaveAdded(tbl, opps, t) ==
  IF opps = << >> THEN 0
  ELSE IF Existing(tbl, Head(opps))
       THEN SaveAdded(tbl, Tail(opps), t)
       ELSE 1 + SaveAdded(Append(tbl, NewRow(tbl, Head(opps), t)), Tail(opps), t + 1)

\* ------------------------------------------------------------------ filter
\* mutant: stored titles compared as they are, not lower-cased and trimmed
ExistingTitles_Exact(tbl) == {tbl[i].title : i \in 1..Len(tbl)}

\* mutant: only rows still 'new' count as history
ExistingTitles_NewOnly(tbl) ==
  {Strip(Lower(tbl[i].title)) : i \in {j \in 1..Len(tbl) : tbl[j].status = "new"}}

ExistingTitles(tbl) == {Strip(Lower(tbl[i].title)) : i \in 1..Len(tbl)}

\* mutant: stored URLs normalized by dropping the query mark
ExistingUrls_NoQuery(tbl) ==
  {SelectSeq(Strip(tbl[i].url), LAMBDA c : c # "?") :
     i \in {j \in 1..Len(tbl) : ~tbl[j].url_null /\ tbl[j].url # EMPTY}}

ExistingUrls(tbl) ==
  {Strip(tbl[i].url) :
     i \in {j \in 1..Len(tbl) : ~tbl[j].url_null /\ tbl[j].url # EMPTY}}

\* mutant: the threshold taken as open (score <= 4 dropped)
ScoreTooLow_Open(opp) == opp.score <= SCORE_THRESHOLD

ScoreTooLow(opp) == opp.score < SCORE_THRESHOLD

\* mutant: history consulted for the URL only
InHistory_UrlOnly(opp, tbl) ==
  /\ Strip(GetUrl(opp)) # EMPTY
  /\ Strip(GetUrl(opp)) \in ExistingUrls(tbl)

InHistory(opp, tbl) ==
  \/ Lower(Strip(GetTitle(opp))) \in ExistingTitles(tbl)
  \/ /\ Strip(GetUrl(opp)) # EMPTY
     /\ Strip(GetUrl(opp)) \in ExistingUrls(tbl)

\* mutant: no seen_titles check within the batch
RECURSIVE FilterLoop_NoSeen(_, _, _, _)
FilterLoop_NoSeen(opps, i, seen_titles, tbl) ==
  IF i > Len(opps) THEN << >>
  ELSE IF ScoreTooLow(opps[i]) \/ InHistory(opps[i], tbl)
       THEN FilterLoop_NoSeen(opps, i + 1, seen_titles, tbl)
       ELSE <<i>> \o FilterLoop_NoSeen(opps, i + 1, seen_titles, tbl)

\* The loop of FilterAgent.process from index i on; the indices it keeps.
RECURSIVE FilterLoop(_, _, _, _)
FilterLoop(opps, i, seen_titles, tbl) ==
  IF i > Len(opps) THEN << >>
  ELSE LET opp == opps[i]
           title_lower == Lower(Strip(GetTitle(opp)))
       IN IF ScoreTooLow(opp)
          THEN FilterLoop(opps, i + 1, seen_titles, tbl)
          ELSE IF title_lower \in seen_titles
          THEN FilterLoop(opps, i + 1, seen_titles, tbl)
          ELSE IF InHistory(opp, tbl)
          THEN FilterLoop(opps, i + 1, seen_titles \cup {title_lower}, tbl)
          ELSE <<i>> \o FilterLoop(opps, i + 1, seen_titles \cup {title_lower}, tbl)

FilterKept(opps, tbl) == FilterLoop(opps, 1, {}, tbl)

\* mutant: each survivor is put in front of the list (filtered.insert(0, opp))
FilterProcess_Reversed(opps, tbl) ==
  LET kept == FilterKept(opps, tbl)
  IN [k \in 1..Len(kept) |-> opps[kept[Len(kept) + 1 - k]]]

FilterProcess(opps, tbl) ==
  LET kept == FilterKept(opps, tbl) IN [k \in 1..Len(kept) |-> opps[kept[k]]]

\* ---------------------------------------------------------------- analyzer
\* A reply of the text service, as json.loads sees it: unparseable text (also
\* the "Error: ..." string call_claude returns), a JSON value that is no
\* list, or a list of JSON objects.
JObj(ht, t, uk, u, sk, sc) ==
  [is_dict |-> TRUE, has_title |-> ht, title |-> t, url_kind |-> uk, url |-> u,
   score_kind |-> sk, score |-> sc]

Reply(k, items) == [kind |-> k, items |-> items]

\* str(opp.get('url', '')): str(None) is the text 'None'
CleanUrl(o) ==
  CASE o.url_kind = "absent" -> EMPTY
    [] o.url_kind = "null" -> <<"None">>
    [] OTHER -> o.url

\* float(opp.get('score', 0)) when it succeeds
CleanScore(o) == IF o.score_kind = "absent" THEN 0 ELSE o.score

\* float() raises ValueError on a non-numeric string, TypeError on null, a
\* list or an object
ScoreValueError(o) == o.score_kind = "badstr"
ScoreTypeError(o) == o.score_kind \in {"null", "list"}

Cleaned(o) == Cand(TRUE, o.title, "str", CleanUrl(o), CleanScore(o))

\* The validate-and-clean loop; stops at the first float() that raises.
RECURSIVE CleanLoop(_)
CleanLoop(items) ==
  IF items = << >> THEN [status |-> "ok", out |-> << >>]
  ELSE LET o == Head(items) IN
       IF ~(o.is_dict /\ o.has_title) THEN CleanLoop(Tail(items))
       ELSE IF ScoreValueError(o) THEN [status |-> "ValueError", out |-> << >>]
       ELSE IF ScoreTypeError(o) THEN [status |-> "TypeError", out |-> << >>]
       ELSE LET rest == CleanLoop(Tail(items)) IN
            IF rest.status = "ok"
            THEN [status |-> "ok", out |-> <<Cleaned(o)>> \o rest.out]
            ELSE rest

\* _analyze_batch: except (JSONDecodeError, IndexError, ValueError) returns
\* []; a TypeError is not caught.
AnalyzeBatch(reply) ==
  IF reply.kind # "list" THEN [raised |-> FALSE, out |-> << >>]
  ELSE LET r == CleanLoop(reply.items) IN
       CASE r.status = "ok" -> [raised |-> FALSE, out |-> r.out]
         [] r.status = "ValueError" -> [raised |-> FALSE, out |-> << >>]
         [] OTHER -> [raised |-> TRUE, out |-> << >>]

NumBatches(n) == (n + BATCH_SIZE - 1) \div BATCH_SIZE

\* AnalyzerAgent.process over the replies of its batches, in batch order.
RECURSIVE AnalyzerProcess(_)
AnalyzerProcess(replies) ==
  IF replies = << >> THEN [raised |-> FALSE, out |-> << >>]
  ELSE LET b == AnalyzeBatch(Head(replies)) IN
       IF b.raised THEN b
       ELSE LET rest == AnalyzerProcess(Tail(replies)) IN
            IF rest.raised THEN rest
            ELSE [raised |-> FALSE, out |-> b.out \o rest.out]

\* ------------------------------------------------------------------- query
DismissedIds(dlog) == {dlog[i] : i \in 1..Len(dlog)}

\* mutant: found_date ASC as the second key
Before_OldestFirst(r1, r2) ==
  \/ r1.score > r2.score
  \/ r1.score = r2.score /\ r1.found_date < r2.found_date
  \/ r1.score = r2.score /\ r1.found_date = r2.found_date /\ r1.id < r2.id

\* score DESC, found_date DESC; rows equal in both come in rowid order
Before(r1, r2) ==
  \/ r1.score > r2.score
  \/ r1.score = r2.score /\ r1.found_date > r2.found_date
  \/ r1.score = r2.score /\ r1.found_date = r2.found_date /\ r1.id < r2.id

RECURSIVE SortRows(_)
SortRows(rows) ==
  IF rows = {} THEN << >>
  ELSE LET first == CHOOSE r \in rows : \A q \in rows \ {r} : Before(r, q)
       IN <<first>> \o SortRows(rows \ {first})

Take(s, n) == IF Len(s) <= n THEN s ELSE SubSeq(s, 1, n)

\* get_opportunities(status, limit, min_score); status "" is None
GetOpportunities(tbl, dlog, status, limit, min_score) ==
  Take(SortRows({tbl[i] : i \in {j \in 1..Len(tbl) :
                   /\ tbl[j].score >= min_score
                   /\ (status # "" => tbl[j].status = status)
                   /\ tbl[j].id \notin DismissedIds(dlog)}}), limit)

\* get_bookmarked(): one result row per row of the bookmarked log whose
\* opportunity exists, the most recently bookmarked first
RECURSIVE GetBookmarked(_, _)
GetBookmarked(tbl, blog) ==
  IF blog = << >> THEN << >>
  ELSE LET b == blog[Len(blog)]
           joined == IF b \in 1..Len(tbl) THEN <<tbl[b]>> ELSE << >>
       IN joined \o GetBookmarked(tbl, SubSeq(blog, 1, Len(blog) - 1))

GetTopOpportunities(tbl, dlog, limit) ==
  GetOpportunities(tbl, dlog, "new", limit, MIN_DIGEST_SCORE)

\* mutant: an id past the last row updates the last row (WHERE id >= ... slip)
SetStatus_Clamped(tbl, id, st) ==
  [i \in 1..Len(tbl) |->
     IF tbl[i].id = id \/ (id > Len(tbl) /\ i = Len(tbl))
     THEN [tbl[i] EXCEPT !.status = st]
     ELSE tbl[i]]

\* mutant: the UPDATE without its WHERE clause
SetStatus_All(tbl, id, st) ==
  [i \in 1..Len(tbl) |-> [tbl[i] EXCEPT !.status = st]]

SetStatus(tbl, id, st) ==
  [i \in 1..Len(tbl) |-> IF tbl[i].id = id THEN [tbl[i] EXCEPT !.status = st]
                         ELSE tbl[i]]

\* ------------------------------------------------------------------- state
VARIABLES
  running, started_at, finished_at, last_result, last_error, \* scan_status
  api_response,      \* the last JSON body api_scan returned
  pc, loc,           \* per thread: position and locals of the run
  opportunities, dismissed, bookmarked, email_log, scan_log, \* the tables
  now,               \* the clock: every datetime.now() read is later than the last
  n_started, n_ended, \* triggers accepted; run_daily_scan calls ended
  last_call          \* the last direct call of save or filter, with its result

scan_status == <<running, started_at, finished_at, last_result, last_error>>
tables == <<opportunities, dismissed, bookmarked, email_log, scan_log>>
vars == <<running, started_at, finished_at, last_result, last_error,
          api_response, pc, loc, opportunities, dismissed, bookmarked,
          email_log, scan_log, now, n_started, n_ended, last_call>>

NULL == -1
NO_ERROR == "null"
Workers == {"m1", "m2"}
Threads == {"sched"} \cup Workers

Result(st, scraped, detected, after, stored, sent) ==
  [status |-> st, items_scraped |-> scraped, opportunities_detected |-> detected,
   after_filtering |-> after, new_stored |-> stored, email_sent |-> sent]

NoResult == Result("null", 0, 0, 0, 0, FALSE)

NoLocals ==
  [raw_items |-> 0, opportunities |-> << >>, filtered |-> << >>, added |-> 0,
   top |-> << >>, delivery |-> "not_called", email_sent |-> FALSE,
   result |-> NoResult, error |-> NO_ERROR]

NoCall ==
  [op |-> "none", arg |-> << >>, before |-> << >>, ret |-> 0, kept |-> << >>,
   out |-> << >>]

InitRunState ==
  /\ running = FALSE
  /\ started_at = NULL
  /\ finished_at = NULL
  /\ last_result = NoResult
  /\ last_error = NO_ERROR
  /\ api_response = [status |-> "none", started_at |-> NULL]
  /\ pc = [t \in Threads |-> "idle"]
  /\ loc = [t \in Threads |-> NoLocals]
  /\ email_log = << >>
  /\ scan_log = << >>
  /\ n_started = 0
  /\ n_ended = 0
  /\ last_call = NoCall

\* init_db on a new database file, scan_status as the module creates it
Init ==
  /\ InitRunState
  /\ opportunities = << >>
  /\ dismissed = << >>
  /\ bookmarked = << >>
  /\ now = 0

\* ------------------------------------------------------------------ inputs
T_A == <<"A">>
T_a == <<" ", "a">>
T_B == <<"B">>
T_C == <<"C">>
U_1 == <<"u">>
U_2 == <<"u", "?">>

RawCounts == {0, 3}

Replies ==
  { Reply("text", << >>),
    Reply("list", <<JObj(TRUE, T_C, "absent", EMPTY, "num", 600)>>),
    Reply("list", <<JObj(TRUE, T_A, "absent", EMPTY, "num", 600),
                    JObj(TRUE, T_B, "absent", EMPTY, "num", 300)>>),
    Reply("list", <<JObj(TRUE, T_a, "str", U_1, "num", 600),
                    JObj(TRUE, T_B, "str", U_1, "num", 400)>>),
    Reply("list", <<JObj(TRUE, T_B, "str", U_1, "null", 0)>>) }

SendOutcomes == {"no_key", "no_package", "send_raises", "log_raises", "sent"}

\* ---------------------------------------------------------------- triggers
FreeWorker == IF pc["m1"] = "idle" THEN "m1" ELSE "m2"

\* mutant: the rejection reports the current time, not the run's start
ApiScanRejected_Now ==
  /\ running
  /\ api_response' = [status |-> "already_running", started_at |-> now]
  /\ UNCHANGED <<scan_status, pc, loc, tables, now, n_started, n_ended, last_call>>

\* api_scan, the branch taken when scan_status['running'] is set
ApiScanRejected ==
  /\ running
  /\ api_response' = [status |-> "already_running", started_at |-> started_at]
  /\ UNCHANGED <<scan_status, pc, loc, tables, now, n_started, n_ended, last_call>>

\* mutant: the flag is set without being tested first
ApiScanAccepted_NoCheck ==
  /\ n_started < MaxRuns
  /\ \E w \in Workers : pc[w] = "idle"
  /\ running' = TRUE
  /\ started_at' = now
  /\ last_result' = NoResult
  /\ last_error' = NO_ERROR
  /\ finished_at' = NULL
  /\ pc' = [pc EXCEPT ![FreeWorker] = "start"]
  /\ api_response' = [status |-> "started", started_at |-> NULL]
  /\ n_started' = n_started + 1
  /\ now' = now + 1
  /\ UNCHANGED <<loc, tables, n_ended, last_call>>

\* api_scan, the accepting branch and the thread it starts
ApiScanAccepted ==
  /\ ~running
  /\ n_started < MaxRuns
  /\ \E w \in Workers : pc[w] = "idle"
  /\ running' = TRUE
  /\ started_at' = now
  /\ last_result' = NoResult
  /\ last_error' = NO_ERROR
  /\ finished_at' = NULL
  /\ pc' = [pc EXCEPT ![FreeWorker] = "start"]
  /\ api_response' = [status |-> "started", started_at |-> NULL]
  /\ n_started' = n_started + 1
  /\ now' = now + 1
  /\ UNCHANGED <<loc, tables, n_ended, last_call>>

ApiScan == ApiScanRejected \/ ApiScanAccepted

\* the JSON body api_scan_status returns in the current state
ApiScanStatusResponse ==
  [running |-> running, started_at |-> started_at, finished_at |-> finished_at,
   result |-> last_result, error |-> last_error]

\* mutant: the query has to wait until no run is in flight
ApiScanStatus_WaitsForRun ==
  /\ \A t \in Threads : pc[t] = "idle"
  /\ UNCHANGED vars

\* api_scan_status: reads scan_status under scan_lock, changes nothing
ApiScanStatus == UNCHANGED vars

\* scheduled_scan (called by APScheduler), the skipping branch
SchedSkip ==
  /\ pc["sched"] = "idle"
  /\ running
  /\ UNCHANGED vars

\* scheduled_scan, the accepting branch; run_scan_background then runs on
\* the scheduler's thread
SchedAccepted ==
  /\ pc["sched"] = "idle"
  /\ ~running
  /\ n_started < MaxRuns
  /\ running' = TRUE
  /\ started_at' = now
  /\ pc' = [pc EXCEPT !["sched"] = "start"]
  /\ n_started' = n_started + 1
  /\ now' = now + 1
  /\ UNCHANGED <<finished_at, last_result, last_error, api_response, loc,
                 tables, n_ended, last_call>>

ScheduledScan == SchedSkip \/ SchedAccepted

\* ---------------------------------------------------------------- pipeline
\* run_scan_background: orchestrator = ScoutOrchestrator()
Construct(t) ==
  /\ pc[t] = "start"
  /\ \E ok \in BOOLEAN :
       IF ok
       THEN /\ pc' = [pc EXCEPT ![t] = "scraping"]
            /\ loc' = loc
       ELSE /\ pc' = [pc EXCEPT ![t] = "raised"]
            /\ loc' = [loc EXCEPT ![t].error = "InitError"]
  /\ UNCHANGED <<scan_status, api_response, tables, now, n_started, n_ended,
                 last_call>>

\* mutant: the no-data exit returns without log_scan
Scrape_NoLog(t) ==
  /\ pc[t] = "scraping"
  /\ \E n \in RawCounts :
       IF n = 0
       THEN /\ loc' = [loc EXCEPT ![t].result = Result("no_data", 0, 0, 0, 0, FALSE)]
            /\ pc' = [pc EXCEPT ![t] = "returned"]
            /\ n_ended' = n_ended + 1
       ELSE /\ loc' = [loc EXCEPT ![t].raw_items = n]
            /\ pc' = [pc EXCEPT ![t] = "analyzing"]
            /\ n_ended' = n_ended
  /\ UNCHANGED <<scan_status, api_response, tables, now, n_started, last_call>>

\* Step 1 and the no-data exit
Scrape(t) ==
  /\ pc[t] = "scraping"
  /\ \E n \in RawCounts :
       IF n = 0
       THEN /\ scan_log' = Append(scan_log,
                             [items_found |-> 0, opportunities_added |-> 0])
            /\ loc' = [loc EXCEPT ![t] =
                         [loc[t] EXCEPT
                            !.result = Result("no_data", 0, 0, 0, 0, FALSE)]]
            /\ pc' = [pc EXCEPT ![t] = "returned"]
            /\ n_ended' = n_ended + 1
       ELSE /\ loc' = [loc EXCEPT ![t] =
                         [loc[t] EXCEPT !.raw_items = n]]
            /\ pc' = [pc EXCEPT ![t] = "analyzing"]
            /\ UNCHANGED <<scan_log, n_ended>>
  /\ UNCHANGED <<scan_status, api_response, opportunities, dismissed,
                 bookmarked, email_log, now, n_started, last_call>>

\* Step 2
Analyze(t) ==
  /\ pc[t] = "analyzing"
  /\ \E replies \in [1..NumBatches(loc[t].raw_items) -> Replies] :
       LET r == AnalyzerProcess(replies) IN
       IF r.raised
       THEN /\ loc' = [loc EXCEPT ![t] =
                         [loc[t] EXCEPT !.error = "TypeError"]]
            /\ pc' = [pc EXCEPT ![t] = "raised"]
            /\ n_ended' = n_ended + 1
       ELSE /\ loc' = [loc EXCEPT ![t] =
                         [loc[t] EXCEPT !.opportunities = r.out]]
            /\ pc' = [pc EXCEPT ![t] = "filtering"]
            /\ n_ended' = n_ended
  /\ UNCHANGED <<scan_status, api_response, tables, now, n_started, last_call>>

\* Step 3
Filter(t) ==
  /\ pc[t] = "filtering"
  /\ loc' = [loc EXCEPT ![t] =
               [loc[t] EXCEPT
                  !.filtered = FilterProcess(loc[t].opportunities, opportunities)]]
  /\ pc' = [pc EXCEPT ![t] = "storing"]
  /\ UNCHANGED <<scan_status, api_response, tables, now, n_started, n_ended,
                 last_call>>

\* mutant: save_opportunities(opportunities), the extractor's output
Store_Unfiltered(t) ==
  /\ pc[t] = "storing"
  /\ opportunities' = SaveTable(opportunities, loc[t].opportunities, now)
  /\ loc' = [loc EXCEPT ![t] =
               [loc[t] EXCEPT
                  !.added = SaveAdded(opportunities, loc[t].opportunities, now)]]
  /\ pc' = [pc EXCEPT ![t] = "notifying"]
  /\ now' = now + SaveAdded(opportunities, loc[t].opportunities, now)
  /\ UNCHANGED <<scan_status, api_response, dismissed, bookmarked, email_log,
                 scan_log, n_started, n_ended, last_call>>

\* Step 4
Store(t) ==
  /\ pc[t] = "storing"
  /\ opportunities' = SaveTable(opportunities, loc[t].filtered, now)
  /\ loc' = [loc EXCEPT ![t] =
               [loc[t] EXCEPT
                  !.added = SaveAdded(opportunities, loc[t].filtered, now)]]
  /\ pc' = [pc EXCEPT ![t] = "notifying"]
  /\ now' = now + SaveAdded(opportunities, loc[t].filtered, now)
  /\ UNCHANGED <<scan_status, api_response, dismissed, bookmarked, email_log,
                 scan_log, n_started, n_ended, last_call>>

\* send_daily_digest(top) under one outcome of its environment: its return
\* value.  True only when resend.Emails.send and then log_email both returned.
DigestSent(top, outcome) == top # << >> /\ outcome = "sent"

\* resend.Emails.send returned without raising: the message was handed over
Delivered(top, outcome) == top # << >> /\ outcome \in {"sent", "log_raises"}

\* mutant: an exception of the delivery request leaves send_daily_digest
Notify_SendFailureRaises(t) ==
  /\ pc[t] = "notifying"
  /\ LET top == GetTopOpportunities(opportunities, dismissed, DIGEST_LIMIT) IN
     \E outcome \in (IF top = << >> THEN {"no_key"} ELSE SendOutcomes) :
       IF top # << >> /\ outcome = "send_raises"
       THEN /\ loc' = [loc EXCEPT ![t] =
                         [loc[t] EXCEPT !.delivery = outcome, !.error = "SendError"]]
            /\ pc' = [pc EXCEPT ![t] = "raised"]
            /\ UNCHANGED <<email_log, scan_log>>
       ELSE /\ email_log' =
                 IF DigestSent(top, outcome)
                 THEN Append(email_log,
                             [count |-> Len(top),
                              ids |-> [i \in 1..Len(top) |-> top[i].id]])
                 ELSE email_log
            /\ loc' = [loc EXCEPT ![t] =
                         [loc[t] EXCEPT
                            !.top = [i \in 1..Len(top) |-> top[i].id],
                            !.delivery = IF top = << >> THEN "not_called" ELSE outcome,
                            !.email_sent = DigestSent(top, outcome),
                            !.result = Result("complete", loc[t].raw_items,
                                              Len(loc[t].opportunities),
                                              Len(loc[t].filtered), loc[t].added,
                                              DigestSent(top, outcome))]]
            /\ scan_log' = Append(scan_log, [items_found |-> loc[t].raw_items,
                                             opportunities_added |-> loc[t].added])
            /\ pc' = [pc EXCEPT ![t] = "returned"]
  /\ n_ended' = n_ended + 1
  /\ UNCHANGED <<scan_status, api_response, opportunities, dismissed,
                 bookmarked, now, n_started, last_call>>

\* Step 5, log_scan and the return of the result
Notify(t) ==
  /\ pc[t] = "notifying"
  /\ LET top == GetTopOpportunities(opportunities, dismissed, DIGEST_LIMIT) IN
     \E outcome \in (IF top = << >> THEN {"no_key"} ELSE SendOutcomes) :
       /\ email_log' =
            IF DigestSent(top, outcome)
            THEN Append(email_log,
                        [count |-> Len(top),
                         ids |-> [i \in 1..Len(top) |-> top[i].id]])
            ELSE email_log
       /\ loc' = [loc EXCEPT ![t] =
                    [loc[t] EXCEPT
                       !.top = [i \in 1..Len(top) |-> top[i].id],
                       !.delivery = IF top = << >> THEN "not_called" ELSE outcome,
                       !.email_sent = DigestSent(top, outcome),
                       !.result = Result("complete", loc[t].raw_items,
                                         Len(loc[t].opportunities),
                                         Len(loc[t].filtered), loc[t].added,
                                         DigestSent(top, outcome))]]
  /\ scan_log' = Append(scan_log, [items_found |-> loc[t].raw_items,
                                   opportunities_added |-> loc[t].added])
  /\ pc' = [pc EXCEPT ![t] = "returned"]
  /\ n_ended' = n_ended + 1
  /\ UNCHANGED <<scan_status, api_response, opportunities, dismissed,
                 bookmarked, now, n_started, last_call>>

\* A database call of the filter, the store or the digest query raises
\* (sqlite3.Error); run_daily_scan has no handler.
DbError(t) ==
  /\ pc[t] \in {"filtering", "storing", "notifying"}
  /\ loc' = [loc EXCEPT ![t] =
               [loc[t] EXCEPT !.error = "OperationalError"]]
  /\ pc' = [pc EXCEPT ![t] = "raised"]
  /\ n_ended' = n_ended + 1
  /\ UNCHANGED <<scan_status, api_response, tables, now, n_started, last_call>>

\* run_scan_background after run_daily_scan returned
Finish(t) ==
  /\ pc[t] = "returned"
  /\ running' = FALSE
  /\ last_result' = loc[t].result
  /\ last_error' = NO_ERROR
  /\ finished_at' = now
  /\ pc' = [pc EXCEPT ![t] = "idle"]
  /\ loc' = [loc EXCEPT ![t] = NoLocals]
  /\ now' = now + 1
  /\ UNCHANGED <<started_at, api_response, tables, n_started, n_ended,
                 last_call>>

\* mutant: the except branch records the error and leaves running set
FinishError_StaysRunning(t) ==
  /\ pc[t] = "raised"
  /\ last_error' = loc[t].error
  /\ finished_at' = now
  /\ pc' = [pc EXCEPT ![t] = "idle"]
  /\ loc' = [loc EXCEPT ![t] = NoLocals]
  /\ now' = now + 1
  /\ UNCHANGED <<running, started_at, last_result, api_response, tables,
                 n_started, n_ended, last_call>>

\* run_scan_background, its except branch
FinishError(t) ==
  /\ pc[t] = "raised"
  /\ running' = FALSE
  /\ last_error' = loc[t].error
  /\ finished_at' = now
  /\ pc' = [pc EXCEPT ![t] = "idle"]
  /\ loc' = [loc EXCEPT ![t] = NoLocals]
  /\ now' = now + 1
  /\ UNCHANGED <<started_at, last_result, api_response, tables, n_started,
                 n_ended, last_call>>

RunStep(t) ==
  \/ Construct(t)
  \/ Scrape(t)
  \/ Analyze(t)
  \/ Filter(t)
  \/ Store(t)
  \/ Notify(t)
  \/ DbError(t)
  \/ Finish(t)
  \/ FinishError(t)

\* ------------------------------------------------------ dismiss / bookmark
MarkIds == 1..(Len(opportunities) + 1)

DismissOpportunity(opp_id) ==
  /\ Len(dismissed) + Len(bookmarked) < MaxMarks
  /\ dismissed' = Append(dismissed, opp_id)
  /\ opportunities' = SetStatus(opportunities, opp_id, "dismissed")
  /\ UNCHANGED <<scan_status, api_response, pc, loc, bookmarked, email_log,
                 scan_log, now, n_started, n_ended, last_call>>

BookmarkOpportunity(opp_id) ==
  /\ Len(dismissed) + Len(bookmarked) < MaxMarks
  /\ bookmarked' = Append(bookmarked, opp_id)
  /\ opportunities' = SetStatus(opportunities, opp_id, "bookmarked")
  /\ UNCHANGED <<scan_status, api_response, pc, loc, dismissed, email_log,
                 scan_log, now, n_started, n_ended, last_call>>

Next ==
  \/ ApiScan
  \/ ApiScanStatus
  \/ ScheduledScan
  \/ \E t \in Threads : RunStep(t)
  \/ \E id \in MarkIds : DismissOpportunity(id)
  \/ \E id \in MarkIds : BookmarkOpportunity(id)

Spec == Init /\ [][Next]_vars

\* Every started thread keeps running and every stage ends.
FairSpec == Spec /\ \A t \in Threads : WF_vars(RunStep(t))

\* ------------------------------------------- direct calls of save and filter
Range(f) == {f[i] : i \in DOMAIN f}

RECURSIVE SeqsUpTo(_, _)
SeqsUpTo(S, n) ==
  IF n = 0 THEN {<< >>}
  ELSE LET shorter == SeqsUpTo(S, n - 1) IN
       shorter \cup {Append(q, x) : q \in {r \in shorter : Len(r) = n - 1}, x \in S}

\* Every shape of candidate save_opportunities accepts: with or without a
\* title key, the url a string, empty, null or missing.
SaveCands ==
  { Cand(TRUE, T_A, "str", EMPTY, 600),
    Cand(TRUE, T_B, "str", EMPTY, 600),
    Cand(TRUE, T_A, "str", U_1, 600),
    Cand(TRUE, T_B, "null", EMPTY, 600),
    Cand(TRUE, T_B, "absent", EMPTY, 600),
    Cand(FALSE, EMPTY, "str", U_1, 600),
    Cand(FALSE, EMPTY, "absent", EMPTY, 600),
    Cand(FALSE, EMPTY, "null", EMPTY, 600) }

\* save_opportunities(opps), called directly
SaveCall(opps) ==
  /\ Len(opportunities) + Len(opps) <= MaxRows
  /\ opportunities' = SaveTable(opportunities, opps, now)
  /\ now' = now + SaveAdded(opportunities, opps, now)
  /\ last_call' = [op |-> "save", arg |-> opps, before |-> opportunities,
                   ret |-> SaveAdded(opportunities, opps, now), kept |-> << >>,
                   out |-> << >>]
  /\ UNCHANGED <<scan_status, api_response, pc, loc, dismissed, bookmarked,
                 email_log, scan_log, n_started, n_ended>>

\* the same call once more, with the identical list
SaveAgain ==
  /\ last_call.op = "save"
  /\ Len(opportunities) + Len(last_call.arg) <= MaxRows
  /\ opportunities' = SaveTable(opportunities, last_call.arg, now)
  /\ now' = now + SaveAdded(opportunities, last_call.arg, now)
  /\ last_call' = [op |-> "save_again", arg |-> last_call.arg,
                   before |-> opportunities,
                   ret |-> SaveAdded(opportunities, last_call.arg, now),
                   kept |-> << >>, out |-> << >>]
  /\ UNCHANGED <<scan_status, api_response, pc, loc, dismissed, bookmarked,
                 email_log, scan_log, n_started, n_ended>>

SaveNext ==
  \/ \E opps \in SeqsUpTo(SaveCands, MaxSaveIn) : SaveCall(opps)
  \/ SaveAgain

SaveSpec == Init /\ [][SaveNext]_vars

\* Candidates as the analyzer returns them: title, url and score all present.
FilterCands ==
  {Cand(TRUE, t, "str", u, sc) :
     t \in {T_A, T_a, T_B}, u \in {EMPTY, U_1}, sc \in {399, 400, 600}}

\* Tables the store can hold when the filter runs, built by save itself.
FilterTables ==
  {SaveTable(<< >>, l, 0) :
     l \in { << >>,
             <<Cand(TRUE, T_A, "str", EMPTY, 600)>>,
             <<Cand(TRUE, T_a, "str", U_1, 600)>>,
             <<Cand(TRUE, T_B, "str", U_1, 400)>>,
             <<Cand(TRUE, T_A, "str", U_2, 600)>>,
             <<Cand(TRUE, T_B, "str", EMPTY, 600),
               Cand(TRUE, T_A, "str", U_2, 600)>> }}

\* The store when the filter is called: a table save built, its first row
\* still new, or dismissed or bookmarked through dismiss_opportunity /
\* bookmark_opportunity.
FilterInit ==
  /\ InitRunState
  /\ \E tbl \in FilterTables, mark \in {"new", "dismissed", "bookmarked"} :
       /\ mark # "new" => tbl # << >>
       /\ opportunities = IF mark = "new" THEN tbl ELSE SetStatus(tbl, 1, mark)
       /\ dismissed = IF mark = "dismissed" THEN <<1>> ELSE << >>
       /\ bookmarked = IF mark = "bookmarked" THEN <<1>> ELSE << >>
  /\ now = Len(opportunities)

\* FilterAgent.process(opps), called directly
FilterCall(opps) ==
  /\ last_call.op = "none"
  /\ last_call' = [op |-> "filter", arg |-> opps, before |-> opportunities,
                   ret |-> Len(FilterProcess(opps, opportunities)),
                   kept |-> FilterKept(opps, opportunities),
                   out |-> FilterProcess(opps, opportunities)]
  /\ UNCHANGED <<scan_status, api_response, pc, loc, tables, now, n_started,
                 n_ended>>

FilterNext == \E opps \in SeqsUpTo(FilterCands, MaxFilterIn) : FilterCall(opps)

FilterSpec == FilterInit /\ [][FilterNext]_vars

\* Replies of the text service to one batch: the "Error: ..." text of a failed
\* call, text that is no JSON, a JSON value that is no array, and arrays whose
\* objects have every kind of score.
AnalyzeReplies ==
  { Reply("error", << >>),
    Reply("text", << >>),
    Reply("value", << >>),
    Reply("list", << >>),
    Reply("list", <<JObj(TRUE, T_A, "absent", EMPTY, "num", 600)>>),
    Reply("list", <<JObj(TRUE, T_B, "str", U_1, "absent", 0),
                    JObj(FALSE, EMPTY, "str", U_2, "num", 600)>>),
    Reply("list", <<[is_dict |-> FALSE],
                    JObj(TRUE, T_C, "null", EMPTY, "numstr", 700)>>),
    Reply("list", <<JObj(TRUE, T_A, "absent", EMPTY, "num", 600),
                    JObj(TRUE, T_B, "absent", EMPTY, "badstr", 0)>>),
    Reply("list", <<JObj(TRUE, T_A, "absent", EMPTY, "num", 600),
                    JObj(TRUE, T_B, "absent", EMPTY, "null", 0)>>),
    Reply("list", <<JObj(TRUE, T_B, "absent", EMPTY, "list", 0),
                    JObj(TRUE, T_A, "absent", EMPTY, "num", 600)>>),
    Reply("list", <<JObj(TRUE, T_a, "str", U_1, "num", 300)>>) }

\* AnalyzerAgent.process on raw items that make Len(replies) batches
AnalyzeCall(replies) ==
  /\ last_call.op = "none"
  /\ last_call' = [op |-> "analyze", arg |-> replies,
                   raised |-> AnalyzerProcess(replies).raised,
                   out |-> AnalyzerProcess(replies).out]
  /\ UNCHANGED <<scan_status, api_response, pc, loc, tables, now, n_started,
                 n_ended>>

AnalyzeNext == \E replies \in SeqsUpTo(AnalyzeReplies, MaxBatches) : AnalyzeCall(replies)

AnalyzeSpec == Init /\ [][AnalyzeNext]_vars

\* ----------------------------------------------------------------- scraper
\* self.sources, in the order of the dict, and self.reddit_subs
\* ------------------------------------------ direct calls of the database API
DbCands ==
  { Cand(TRUE, T_A, "null", EMPTY, 500),
    Cand(TRUE, T_B, "null", EMPTY, 600),
    Cand(TRUE, T_C, "null", EMPTY, 600),
    Cand(TRUE, T_C, "null", EMPTY, 400) }

DbStatuses == {"", "new", "dismissed", "bookmarked"}
DbLimits == {0, 1, 2, 50}
DbMinScores == {0, 500, 600}

\* save_opportunities([opp])
DbSave(opp) ==
  /\ last_call.op = "none"
  /\ Len(opportunities) < MaxDbRows
  /\ opportunities' = SaveTable(opportunities, <<opp>>, now)
  /\ now' = now + SaveAdded(opportunities, <<opp>>, now)
  /\ UNCHANGED <<scan_status, api_response, pc, loc, dismissed, bookmarked,
                 email_log, scan_log, n_started, n_ended, last_call>>

\* dismiss_opportunity(opp_id)
DbDismiss(opp_id) ==
  /\ last_call.op = "none"
  /\ Len(dismissed) + Len(bookmarked) < MaxDbMarks
  /\ dismissed' = Append(dismissed, opp_id)
  /\ opportunities' = SetStatus(opportunities, opp_id, "dismissed")
  /\ UNCHANGED <<scan_status, api_response, pc, loc, bookmarked, email_log,
                 scan_log, now, n_started, n_ended, last_call>>

\* bookmark_opportunity(opp_id)
DbBookmark(opp_id) ==
  /\ last_call.op = "none"
  /\ Len(dismissed) + Len(bookmarked) < MaxDbMarks
  /\ bookmarked' = Append(bookmarked, opp_id)
  /\ opportunities' = SetStatus(opportunities, opp_id, "bookmarked")
  /\ UNCHANGED <<scan_status, api_response, pc, loc, dismissed, email_log,
                 scan_log, now, n_started, n_ended, last_call>>

\* get_opportunities(status, limit, min_score)
DbGet(status, limit, min_score) ==
  /\ last_call.op = "none"
  /\ last_call' = [op |-> "get", status |-> status, limit |-> limit,
                   min_score |-> min_score,
                   out |-> GetOpportunities(opportunities, dismissed, status,
                                            limit, min_score)]
  /\ UNCHANGED <<scan_status, api_response, pc, loc, opportunities, dismissed,
                 bookmarked, email_log, scan_log, now, n_started, n_ended>>

\* get_bookmarked()
DbGetBookmarked ==
  /\ last_call.op = "none"
  /\ last_call' = [op |-> "get_bookmarked",
                   out |-> GetBookmarked(opportunities, bookmarked)]
  /\ UNCHANGED <<scan_status, api_response, pc, loc, opportunities, dismissed,
                 bookmarked, email_log, scan_log, now, n_started, n_ended>>

DbNext ==
  \/ \E opp \in DbCands : DbSave(opp)
  \/ \E id \in MarkIds : DbDismiss(id)
  \/ \E id \in MarkIds : DbBookmark(id)
  \/ \E status \in DbStatuses, limit \in DbLimits, min_score \in DbMinScores :
       DbGet(status, limit, min_score)
  \/ DbGetBookmarked

DbSpec == Init /\ [][DbNext]_vars

RssSources == <<"product_hunt", "hacker_news_best", "hacker_news_show">>
RedditSubs == <<"SaaS", "smallbusiness", "Entrepreneur", "LocalLLaMA", "artificial">>

\* sources_scanned
SourcesScanned == RssSources \o <<"reddit", "gumroad">>

\* A raw item: the source it is tagged with and its position in that source.
RawItem(source, k) == [source |-> source, k |-> k]

Min(a, b) == IF a < b THEN a ELSE b

\* What one fetch can do.  A feed: feedparser.parse raises, or gives n entries.
\* A subreddit: the listing request raises, or gives posts (TRUE: stickied).
\* Reddit: no praw package, no credentials, praw.Reddit raises, or one
\* outcome per subreddit.  Gumroad: no bs4 package, requests.get raises, a
\* status other than 200, or cards (TRUE: the card has a title element).
Fetched(ok, got) == [ok |-> ok, got |-> got]
FeedOutcomes == {Fetched(FALSE, 0), Fetched(TRUE, 1), Fetched(TRUE, 26)}
SubOutcomes == {Fetched(FALSE, << >>), Fetched(TRUE, <<TRUE, FALSE>>)}
RedditOutcomes ==
  {[kind |-> k, subs |-> << >>] : k \in {"no_praw", "no_credentials", "connect_raises"}}
    \cup {[kind |-> "subs", subs |-> s] : s \in [1..Len(RedditSubs) -> SubOutcomes]}
GumroadOutcomes ==
  {[kind |-> k, cards |-> << >>] : k \in {"no_bs4", "raise", "status_404"}}
    \cup {[kind |-> "ok", cards |-> <<FALSE, TRUE>>]}

\* the result of one source's scrape: its items, and whether it raised
Scraped(raised, items) == [raised |-> raised, items |-> items]

\* mutant: _scrape_rss without its try/except
ScrapeRss_NoCatch(source, o) ==
  IF ~o.ok THEN Scraped(TRUE, << >>)
  ELSE Scraped(FALSE, [k \in 1..Min(o.got, RSS_LIMIT) |-> RawItem(source, k)])

\* _scrape_rss(source, url): feed.entries[:25], [] when the parse raises
ScrapeRss(source, o) ==
  IF ~o.ok THEN Scraped(FALSE, << >>)
  ELSE Scraped(FALSE, [k \in 1..Min(o.got, RSS_LIMIT) |-> RawItem(source, k)])

\* f"reddit_r/{sub_name}"
SubSource(sub) ==
  CASE sub = "SaaS" -> "reddit_r/SaaS"
    [] sub = "smallbusiness" -> "reddit_r/smallbusiness"
    [] sub = "Entrepreneur" -> "reddit_r/Entrepreneur"
    [] sub = "LocalLLaMA" -> "reddit_r/LocalLLaMA"
    [] sub = "artificial" -> "reddit_r/artificial"

\* one subreddit of _scrape_reddit: hot(limit=10) without the stickied posts
RECURSIVE ScrapeSub(_, _, _)
ScrapeSub(sub, o, k) ==
  IF ~o.ok \/ k > Min(Len(o.got), REDDIT_LIMIT) THEN << >>
  ELSE (IF o.got[k] THEN << >> ELSE <<RawItem(SubSource(sub), k)>>)
         \o ScrapeSub(sub, o, k + 1)

RECURSIVE ScrapeSubs(_, _)
ScrapeSubs(subs, i) ==
  IF i > Len(RedditSubs) THEN << >>
  ELSE ScrapeSub(RedditSubs[i], subs[i], 1) \o ScrapeSubs(subs, i + 1)

\* _scrape_reddit()
ScrapeReddit(o) ==
  IF o.kind = "subs" THEN Scraped(FALSE, ScrapeSubs(o.subs, 1))
  ELSE Scraped(FALSE, << >>)

\* _scrape_gumroad(): cards[:20] that have a title element
RECURSIVE GumroadCards(_, _)
GumroadCards(cards, k) ==
  IF k > Min(Len(cards), GUMROAD_LIMIT) THEN << >>
  ELSE (IF cards[k] THEN <<RawItem("gumroad", k)>> ELSE << >>)
         \o GumroadCards(cards, k + 1)

ScrapeGumroad(o) ==
  IF o.kind = "ok" THEN Scraped(FALSE, GumroadCards(o.cards, 1))
  ELSE Scraped(FALSE, << >>)

\* ScraperAgent.process: the sources in order; an exception of one ends it.
\* attempted lists the sources whose scrape was called.
RECURSIVE ScrapeFeeds(_, _)
ScrapeFeeds(feeds, i) ==
  IF i > Len(RssSources) THEN [raised |-> FALSE, items |-> << >>, attempted |-> << >>]
  ELSE LET r == ScrapeRss(RssSources[i], feeds[i]) IN
       IF r.raised
       THEN [raised |-> TRUE, items |-> << >>, attempted |-> <<RssSources[i]>>]
       ELSE LET rest == ScrapeFeeds(feeds, i + 1) IN
            [raised |-> rest.raised, items |-> r.items \o rest.items,
             attempted |-> <<RssSources[i]>> \o rest.attempted]

ScraperProcess(feeds, reddit, gumroad) ==
  LET f == ScrapeFeeds(feeds, 1)
      r == ScrapeReddit(reddit)
      g == ScrapeGumroad(gumroad)
  IN IF f.raised THEN f
     ELSE IF r.raised
     THEN [raised |-> TRUE, items |-> << >>, attempted |-> f.attempted \o <<"reddit">>]
     ELSE IF g.raised
     THEN [raised |-> TRUE, items |-> << >>,
           attempted |-> f.attempted \o <<"reddit", "gumroad">>]
     ELSE [raised |-> FALSE, items |-> f.items \o r.items \o g.items,
           attempted |-> f.attempted \o <<"reddit", "gumroad">>]

\* ScraperAgent.process({}), called directly under one outcome per source
ScrapeCall(feeds, reddit, gumroad) ==
  /\ last_call.op = "none"
  /\ last_call' = [op |-> "scrape", feeds |-> feeds, reddit |-> reddit,
                   gumroad |-> gumroad,
                   raised |-> ScraperProcess(feeds, reddit, gumroad).raised,
                   attempted |-> ScraperProcess(feeds, reddit, gumroad).attempted,
                   out |-> ScraperProcess(feeds, reddit, gumroad).items]
  /\ UNCHANGED <<scan_status, api_response, pc, loc, tables, now, n_started,
                 n_ended>>

ScrapeNext ==
  \E feeds \in [1..Len(RssSources) -> FeedOutcomes], reddit \in RedditOutcomes,
     gumroad \in GumroadOutcomes : ScrapeCall(feeds, reddit, gumroad)

ScrapeSpec == Init /\ [][ScrapeNext]_vars

\* ================================================================== claims
Active == {t \in Threads : pc[t] # "idle"}

\* C1: at most one execution of the pipeline is in flight at any time, and
\* running is set for as long as an execution has not returned or raised and
\* been recorded.
C1_OneRunInFlight ==
  /\ Cardinality(Active) <= 1
  /\ Active # {} => running

C1_Witness ==
  /\ pc["m1"] = "analyzing"
  /\ api_response.status = "already_running"
  /\ n_started = 1

\* C2: a manual trigger arriving while a run is in flight is answered
\* 'already_running' with the started_at of that run and starts no thread;
\* no step taken while a run is in flight (a rejected manual trigger, a
\* skipped scheduled trigger) changes any field of the run-state.
C2_RejectedTrigger ==
  [][/\ (running /\ api_response' # api_response) =>
          /\ api_response' = [status |-> "already_running",
                              started_at |-> started_at]
          /\ pc' = pc
     /\ (running /\ running') => UNCHANGED scan_status]_vars

C2_Witness ==
  /\ running
  /\ pc["sched"] = "storing"
  /\ api_response = [status |-> "already_running", started_at |-> started_at]
  /\ n_started = 2

\* C3: after any sequence of runs the number of scan_log rows equals the
\* number of runs that have ended, whatever their outcome.
C3_OneLogRowPerRun == Len(scan_log) = n_ended

\* C4: every accepted trigger is eventually followed by running = false; a
\* returned result goes to last_result, a raised exception to last_error,
\* both with running cleared, and a later trigger can then be accepted.
C4_RunEnds ==
  /\ (running = TRUE) ~> (running = FALSE)
  /\ [][\A t \in Threads :
          /\ (pc[t] = "returned" /\ pc'[t] = "idle") =>
               (running' = FALSE /\ last_result' = loc[t].result)
          /\ (pc[t] = "raised" /\ pc'[t] = "idle") =>
               (running' = FALSE /\ last_error' = loc[t].error)]_vars
  /\ []((~running /\ n_started < MaxRuns) => ENABLED ApiScanAccepted)

C4_Witness ==
  /\ ~running
  /\ last_error = "InitError"
  /\ n_started = 1

\* C5: the opportunities table never holds two rows with the same title
\* (trimmed, case-insensitive) nor two rows with the same non-empty URL.
C5_UniqueRows ==
  \A i, j \in 1..Len(opportunities) :
    i < j =>
      /\ Lower(Strip(opportunities[i].title)) # Lower(Strip(opportunities[j].title))
      /\ (~opportunities[i].url_null /\ opportunities[i].url # EMPTY) =>
           (opportunities[j].url_null \/ opportunities[j].url # opportunities[i].url)

C5_Witness ==
  /\ Len(opportunities) = 2
  /\ Len(dismissed) + Len(bookmarked) > 0
  /\ \E t \in Threads :
       /\ pc[t] = "returned"
       /\ loc[t].result.status = "complete"
       /\ loc[t].result.after_filtering < loc[t].result.opportunities_detected
       /\ loc[t].result.new_stored = 1

\* C6: saving the identical list twice in a row adds N rows the first time,
\* and the second call returns 0 and leaves the table unchanged, for every
\* candidate shape.
C6_SaveIdempotent ==
  /\ last_call.op = "save" =>
       last_call.ret = Len(opportunities) - Len(last_call.before)
  /\ last_call.op = "save_again" =>
       (last_call.ret = 0 /\ opportunities = last_call.before)

\* C7: save inserts a candidate exactly when no row has its title and no row
\* has its non-empty URL; an empty URL is no dedup key.
C7_Absent(tbl, opp) ==
  ~\E i \in 1..Len(tbl) :
     \/ tbl[i].title = GetTitle(opp)
     \/ /\ opp.url_kind = "str"
        /\ opp.url # EMPTY
        /\ ~tbl[i].url_null
        /\ tbl[i].url = opp.url

RECURSIVE C7_Claimed(_, _)
C7_Claimed(tbl, opps) ==
  IF opps = << >> THEN 0
  ELSE IF C7_Absent(tbl, Head(opps))
       THEN 1 + C7_Claimed(Append(tbl, NewRow(tbl, Head(opps), 0)), Tail(opps))
       ELSE C7_Claimed(tbl, Tail(opps))

C7_InsertIffAbsent ==
  (last_call.op = "save" /\ \A i \in 1..Len(last_call.arg) : last_call.arg[i].has_title)
    => last_call.ret = C7_Claimed(last_call.before, last_call.arg)

\* C8: a fetch of zero raw items takes the run from scraping straight to its
\* return with status no_data, appending one scan_log row with zero counts
\* and leaving the opportunities table and the email_log as they were; any
\* other fetch goes on to the analyzer without a scan_log row.
C8_NoDataPath ==
  [][\A t \in Threads :
       (pc[t] = "scraping" /\ pc'[t] # "scraping") =>
         IF loc'[t].raw_items = 0
         THEN /\ pc'[t] = "returned"
              /\ loc'[t].result = Result("no_data", 0, 0, 0, 0, FALSE)
              /\ scan_log' = Append(scan_log, [items_found |-> 0,
                                               opportunities_added |-> 0])
              /\ opportunities' = opportunities
              /\ email_log' = email_log
         ELSE /\ pc'[t] = "analyzing"
              /\ scan_log' = scan_log]_vars

C8_Witness ==
  /\ Len(opportunities) > 0
  /\ Len(scan_log) = 2
  /\ scan_log[2] = [items_found |-> 0, opportunities_added |-> 0]
  /\ \E t \in Threads : pc[t] = "returned" /\ loc[t].result.status = "no_data"

C9_Norm(t) == Lower(Strip(t))

C9_DupInBatch(arg, i) ==
  \E j \in 1..(i - 1) : C9_Norm(GetTitle(arg[j])) = C9_Norm(GetTitle(arg[i]))

C9_DupInHistory(opp, tbl) ==
  \E k \in 1..Len(tbl) :
    \/ C9_Norm(tbl[k].title) = C9_Norm(GetTitle(opp))
    \/ /\ Strip(GetUrl(opp)) # EMPTY
       /\ ~tbl[k].url_null
       /\ Strip(tbl[k].url) = Strip(GetUrl(opp))

\* C9: the filter drops every candidate with score < 4 and keeps every
\* candidate with score >= 4 that duplicates neither an earlier candidate of
\* the batch nor the history.
C9_ClosedThreshold ==
  last_call.op = "filter" =>
    \A i \in 1..Len(last_call.arg) :
      /\ last_call.arg[i].score < 400 => i \notin Range(last_call.kept)
      /\ (/\ last_call.arg[i].score >= 400
          /\ ~C9_DupInBatch(last_call.arg, i)
          /\ ~C9_DupInHistory(last_call.arg[i], last_call.before))
           => i \in Range(last_call.kept)

C9_Witness ==
  /\ last_call.op = "filter"
  /\ \E i, j \in 1..Len(last_call.arg) :
       /\ last_call.arg[i].score = 400
       /\ i \in Range(last_call.kept)
       /\ last_call.arg[j].score = 399
       /\ j \notin Range(last_call.kept)

\* C10 as claimed: of the candidates of one call that share a normalized
\* title, none after the first appears in the output, whatever the scores.
C10_FirstOccurrenceOnly ==
  last_call.op = "filter" =>
    \A i, j \in 1..Len(last_call.arg) :
      (i < j /\ C9_Norm(GetTitle(last_call.arg[i])) = C9_Norm(GetTitle(last_call.arg[j])))
        => j \notin Range(last_call.kept)

\* C10 as amended: of the candidates of one call that share a normalized
\* title, none after the first one whose score is at least 4 appears in the
\* output, whatever the scores of the later ones.
C10_FirstPassingOccurrenceOnly ==
  last_call.op = "filter" =>
    \A i, j \in 1..Len(last_call.arg) :
      (/\ i < j
       /\ C9_Norm(GetTitle(last_call.arg[i])) = C9_Norm(GetTitle(last_call.arg[j]))
       /\ last_call.arg[i].score >= 400)
        => j \notin Range(last_call.kept)

C10_Witness ==
  /\ last_call.op = "filter"
  /\ Len(last_call.arg) = 2
  /\ last_call.arg[1].title = T_A
  /\ last_call.arg[2].title = T_a
  /\ last_call.arg[1].score = 400
  /\ last_call.arg[2].score = 600
  /\ last_call.kept = <<1>>

\* C11: the filter drops every candidate whose trimmed, lower-cased title is
\* the trimmed, lower-cased title of a stored row, whatever that row's status.
C11_TitleInHistoryDropped ==
  last_call.op = "filter" =>
    \A i \in 1..Len(last_call.arg) :
      (\E k \in 1..Len(last_call.before) :
         C9_Norm(last_call.before[k].title) = C9_Norm(GetTitle(last_call.arg[i])))
        => i \notin Range(last_call.kept)

C11_Witness ==
  /\ last_call.op = "filter"
  /\ Len(last_call.before) = 1
  /\ last_call.before[1].title = T_A
  /\ last_call.before[1].status = "dismissed"
  /\ last_call.arg = <<Cand(TRUE, T_a, "str", EMPTY, 600)>>
  /\ last_call.kept = << >>

C12_SeenBefore(arg, i) ==
  \E j \in 1..(i - 1) :
    /\ arg[j].score >= 400
    /\ C9_Norm(GetTitle(arg[j])) = C9_Norm(GetTitle(arg[i]))

C12_TitleStored(opp, tbl) ==
  \E k \in 1..Len(tbl) : C9_Norm(tbl[k].title) = C9_Norm(GetTitle(opp))

C12_UrlStored(opp, tbl) ==
  /\ Strip(GetUrl(opp)) # EMPTY
  /\ \E k \in 1..Len(tbl) :
       ~tbl[k].url_null /\ Strip(tbl[k].url) = Strip(GetUrl(opp))

\* C12: a candidate that passes the score and title rules is dropped exactly
\* when its trimmed URL is non-empty and is, character for character, the
\* trimmed URL of a stored row; an empty URL never drops it.
C12_ExactUrlRule ==
  last_call.op = "filter" =>
    \A i \in 1..Len(last_call.arg) :
      (/\ last_call.arg[i].score >= 400
       /\ ~C12_SeenBefore(last_call.arg, i)
       /\ ~C12_TitleStored(last_call.arg[i], last_call.before))
        => (i \notin Range(last_call.kept)
              <=> C12_UrlStored(last_call.arg[i], last_call.before))

C12_Witness ==
  /\ last_call.op = "filter"
  /\ Len(last_call.before) = 1
  /\ last_call.before[1].url = U_2
  /\ last_call.arg = <<Cand(TRUE, T_B, "str", U_1, 600),
                       Cand(TRUE, T_B, "str", EMPTY, 600)>>
  /\ last_call.kept = <<1>>

\* C13: the output of the filter is a subsequence of its input: its elements
\* are input elements taken at strictly increasing positions.
C13_Subsequence ==
  last_call.op = "filter" =>
    \E f \in [1..Len(last_call.out) -> 1..Len(last_call.arg)] :
      /\ \A k \in 1..Len(last_call.out) : last_call.out[k] = last_call.arg[f[k]]
      /\ \A k \in 1..(Len(last_call.out) - 1) : f[k] < f[k + 1]

C13_Witness ==
  /\ last_call.op = "filter"
  /\ Len(last_call.arg) = 2
  /\ Len(last_call.out) = 2
  /\ last_call.out[1] # last_call.out[2]

C14_Statuses == {"new", "dismissed", "bookmarked"}

\* Tables with the titles and URLs of tbl, row for row, and any statuses.
C14_SameTitlesAndUrls(tbl) ==
  {[i \in 1..Len(tbl) |-> [tbl[i] EXCEPT !.status = st[i]]] :
     st \in [1..Len(tbl) -> C14_Statuses]}

\* C14: a filter call changes no table, and its result is the same for every
\* store holding the same titles and URLs.
C14_FilterIsPure ==
  /\ [][tables' = tables]_vars
  /\ [](last_call.op = "filter" =>
          \A tbl \in C14_SameTitlesAndUrls(last_call.before) :
            FilterProcess(last_call.arg, tbl) = last_call.out)

C14_Witness ==
  /\ last_call.op = "filter"
  /\ dismissed = <<1>>
  /\ Len(opportunities) = 1
  /\ opportunities[1].status = "dismissed"
  /\ Len(last_call.arg) = 2
  /\ Len(last_call.out) = 1

\* Rows stored before the run in flight started / by the run in flight.
C15_History == {i \in 1..Len(opportunities) : opportunities[i].found_date < started_at}
C15_StoredByRun == {i \in 1..Len(opportunities) : opportunities[i].found_date > started_at}

\* 3 raw items, 2 candidates scored 6 and 3 with distinct titles not in
\* history, and no dismissal or bookmark made.
C15_Scenario(t) ==
  /\ loc[t].raw_items = 3
  /\ loc[t].opportunities = <<Cand(TRUE, T_A, "str", EMPTY, 600),
                              Cand(TRUE, T_B, "str", EMPTY, 300)>>
  /\ \A i \in C15_History :
       C9_Norm(opportunities[i].title) \notin {C9_Norm(T_A), C9_Norm(T_B)}
  /\ dismissed = << >>
  /\ bookmarked = << >>

\* C15: the result of a completed run reports the number of raw items, of
\* candidates extracted, of candidates the filter returned and of rows save
\* inserted; in the scenario it is 3, 2, 1, 1 and the digest is attempted.
C15_ResultCounts ==
  \A t \in Threads :
    (pc[t] = "returned" /\ loc[t].result.status = "complete") =>
      /\ loc[t].result.items_scraped = loc[t].raw_items
      /\ loc[t].result.opportunities_detected = Len(loc[t].opportunities)
      /\ loc[t].result.after_filtering = Len(loc[t].filtered)
      /\ loc[t].result.new_stored = Cardinality(C15_StoredByRun)
      /\ C15_Scenario(t) =>
           /\ loc[t].result.items_scraped = 3
           /\ loc[t].result.opportunities_detected = 2
           /\ loc[t].result.after_filtering = 1
           /\ loc[t].result.new_stored = 1
           /\ loc[t].delivery # "not_called"

C16_Ids == {opportunities[i].id : i \in 1..Len(opportunities)}

\* C16: dismiss_opportunity and bookmark_opportunity with an id that matches
\* no row come to their end (the log row is written, no error) and leave the
\* opportunities table as it was.
C16_UnknownIdTolerated ==
  /\ [][\A id \in MarkIds \ C16_Ids :
          (dismissed' = Append(dismissed, id) \/ bookmarked' = Append(bookmarked, id))
            => opportunities' = opportunities]_vars
  /\ [](Len(dismissed) + Len(bookmarked) < MaxMarks =>
          /\ ENABLED DismissOpportunity(Len(opportunities) + 1)
          /\ ENABLED BookmarkOpportunity(Len(opportunities) + 1))

C16_Witness ==
  /\ Len(opportunities) = 1
  /\ opportunities[1].status = "new"
  /\ bookmarked = <<2>>
  /\ n_started = 1
  /\ pc = [t \in Threads |-> "idle"]

\* the delivery request of the run's digest returned without raising
C17_DeliverySucceeded(l) == l.delivery \in {"sent", "log_raises"}

\* C17: send_daily_digest returns true exactly when the delivery request
\* succeeded, and each run appends an email_log row exactly when its delivery
\* succeeded, so that rows, successful deliveries and true returns count the
\* same.
C17_LogIffDelivered ==
  [][\A t \in Threads :
       (pc[t] = "notifying" /\ pc'[t] = "returned") =>
         /\ loc'[t].email_sent <=> C17_DeliverySucceeded(loc'[t])
         /\ Len(email_log') =
              Len(email_log) + (IF C17_DeliverySucceeded(loc'[t]) THEN 1 ELSE 0)]_vars

C18_NotSent == {"not_called", "no_key", "no_package", "send_raises"}

\* C18: the digest step ends the run with status complete and its scan_log
\* row unless a database call raises; when the digest is not sent (no
\* credentials, no delivery package, empty top list, request raised) no
\* email_log row is written and email_sent is false, the rows the run stored
\* stay, and the send is not attempted before that step nor again after it.
C18_UnsentDigestCompletes ==
  /\ [][\A t \in Threads :
          (pc[t] = "notifying" /\ pc'[t] # "notifying"
             /\ loc'[t].error # "OperationalError") =>
            /\ pc'[t] = "returned"
            /\ loc'[t].result.status = "complete"
            /\ scan_log' = Append(scan_log, [items_found |-> loc[t].raw_items,
                                             opportunities_added |-> loc[t].added])
            /\ opportunities' = opportunities
            /\ loc'[t].delivery \in C18_NotSent =>
                 /\ email_log' = email_log
                 /\ loc'[t].result.email_sent = FALSE]_vars
  /\ [](\A t \in Threads :
          /\ pc[t] \notin {"returned", "raised"} => loc[t].delivery = "not_called"
          /\ (pc[t] = "returned" /\ loc[t].result.status = "complete") =>
               loc[t].result.new_stored = Cardinality(C15_StoredByRun))

C18_Witness ==
  /\ \E t \in Threads :
       /\ pc[t] = "returned"
       /\ loc[t].delivery = "send_raises"
       /\ loc[t].result = Result("complete", 3, 2, 1, 1, FALSE)
  /\ email_log = << >>
  /\ Len(scan_log) = 1
  /\ Len(opportunities) = 1

\* the reply is not a JSON array: the call failed, or the text does not parse
C19_Unparseable(reply) == reply.kind # "list"

RECURSIVE C19_Concat(_)
C19_Concat(replies) ==
  IF replies = << >> THEN << >>
  ELSE (IF C19_Unparseable(Head(replies)) THEN << >>
        ELSE AnalyzeBatch(Head(replies)).out) \o C19_Concat(Tail(replies))

\* C19: when the reply of a batch cannot be parsed as a JSON array, the
\* extractor still returns, and its output is the candidates of the other
\* batches, in batch order, with nothing from that batch.
C19_BatchesIndependent ==
  (/\ last_call.op = "analyze"
   /\ \E i \in 1..Len(last_call.arg) : C19_Unparseable(last_call.arg[i]))
    => /\ ~last_call.raised
       /\ last_call.out = C19_Concat(last_call.arg)

\* the score as the claim coerces it: the number, or 0 when there is none
C20_Score(o) == IF o.score_kind \in {"num", "numstr"} THEN o.score ELSE 0

RECURSIVE C20_Batch(_)
C20_Batch(items) ==
  IF items = << >> THEN << >>
  ELSE LET o == Head(items) IN
       (IF o.is_dict /\ o.has_title
        THEN <<Cand(TRUE, o.title, "str", CleanUrl(o), C20_Score(o))>>
        ELSE << >>) \o C20_Batch(Tail(items))

RECURSIVE C20_Expected(_)
C20_Expected(replies) ==
  IF replies = << >> THEN << >>
  ELSE (IF Head(replies).kind = "list" THEN C20_Batch(Head(replies).items)
        ELSE << >>) \o C20_Expected(Tail(replies))

\* C20: every object of a parsed batch that has a title becomes a candidate,
\* with score 0 when its score is no number; a score that cannot be coerced
\* discards nothing else and raises nothing.
C20_ScoreCoercion ==
  last_call.op = "analyze" =>
    /\ ~last_call.raised
    /\ last_call.out = C20_Expected(last_call.arg)

\* the items of `out` tagged with a source, in their order
C21_From(out, source) == SelectSeq(out, LAMBDA it : it.source = source)

C21_Numbered(source, ks) == [j \in 1..Len(ks) |-> RawItem(source, ks[j])]

\* What a subreddit has to give: nothing when its request failed, else its
\* posts that are not stickied.
C21_SubItems(o) ==
  IF ~o.ok THEN << >>
  ELSE SelectSeq([k \in 1..Len(o.got) |-> k], LAMBDA k : ~o.got[k])

\* C21: the fetch never raises; every source is attempted once, in order,
\* whatever the others did; a source that failed gives no item and a source
\* that succeeded gives its items (its first 25 entries for a feed), so the
\* raw items are those of the sources that succeeded, source after source.
C21_SourcesIndependent ==
  last_call.op = "scrape" =>
    /\ ~last_call.raised
    /\ last_call.attempted = SourcesScanned
    /\ \A i \in 1..Len(RssSources) :
         C21_From(last_call.out, RssSources[i]) =
           IF ~last_call.feeds[i].ok THEN << >>
           ELSE [k \in 1..Min(last_call.feeds[i].got, 25) |->
                   RawItem(RssSources[i], k)]
    /\ \A i \in 1..Len(RedditSubs) :
         C21_From(last_call.out, SubSource(RedditSubs[i])) =
           IF last_call.reddit.kind # "subs" THEN << >>
           ELSE C21_Numbered(SubSource(RedditSubs[i]),
                             C21_SubItems(last_call.reddit.subs[i]))
    /\ C21_From(last_call.out, "gumroad") =
         IF last_call.gumroad.kind # "ok" THEN << >>
         ELSE C21_Numbered("gumroad",
                SelectSeq([k \in 1..Len(last_call.gumroad.cards) |-> k],
                          LAMBDA k : last_call.gumroad.cards[k]))
    /\ Len(last_call.out) =
         Len(C21_From(last_call.out, "gumroad"))
         + Len(SelectSeq(last_call.out, LAMBDA it : it.source \in Range(RssSources)))
         + Len(SelectSeq(last_call.out, LAMBDA it :
                 it.source \in {SubSource(RedditSubs[i]) : i \in 1..Len(RedditSubs)}))

C21_Witness ==
  /\ last_call.op = "scrape"
  /\ last_call.feeds = <<Fetched(FALSE, 0), Fetched(TRUE, 26), Fetched(FALSE, 0)>>
  /\ last_call.reddit.kind = "subs"
  /\ ~last_call.reddit.subs[1].ok
  /\ last_call.reddit.subs[2] = Fetched(TRUE, <<TRUE, FALSE>>)
  /\ last_call.gumroad.kind = "raise"
  /\ Len(last_call.out) >= 26

\* Idle -> (thread started) -> Scraping -> Analyzing -> Filtering -> Storing
\* -> Notifying -> Done, and Scraping -> Done
C22_Edges ==
  { <<"idle", "start">>, <<"start", "scraping">>, <<"scraping", "analyzing">>,
    <<"scraping", "returned">>, <<"analyzing", "filtering">>,
    <<"filtering", "storing">>, <<"storing", "notifying">>,
    <<"notifying", "returned">>, <<"returned", "idle">>, <<"raised", "idle">> }

\* C22: a run moves from stage to stage only along Scraping, Analyzing,
\* Filtering, Storing, Notifying, Done, or from Scraping to Done with no_data,
\* unless an exception ends it; it never goes back to a stage, and what
\* Storing saves is what Filtering of this run returned.
C22_StageOrder ==
  /\ [][\A t \in Threads :
          /\ pc'[t] # pc[t] =>
               \/ <<pc[t], pc'[t]>> \in C22_Edges
               \/ pc'[t] = "raised" /\ pc[t] \notin {"idle", "returned"}
          /\ (pc[t] = "scraping" /\ pc'[t] = "returned") =>
               loc'[t].result.status = "no_data"
          /\ (pc[t] = "notifying" /\ pc'[t] = "returned") =>
               loc'[t].result.status = "complete"
          /\ (pc[t] = "filtering" /\ pc'[t] = "storing") =>
               loc'[t].filtered = FilterProcess(loc[t].opportunities, opportunities)
          /\ (pc[t] = "storing" /\ pc'[t] = "storing") =>
               loc'[t].filtered = loc[t].filtered
          /\ (pc[t] = "storing" /\ pc'[t] = "notifying") =>
               opportunities' = SaveTable(opportunities, loc[t].filtered, now)]_vars
  /\ [](\A t \in Threads :
          pc[t] \in {"idle", "start", "scraping", "analyzing", "filtering"} =>
            loc[t].filtered = << >>)

C22_Witness ==
  /\ n_started = 2
  /\ Len(opportunities) = 1
  /\ \E t \in Threads :
       /\ pc[t] = "notifying"
       /\ Len(loc[t].opportunities) = 2
       /\ Len(loc[t].filtered) = 1
       /\ loc[t].added = 0

C24_Fixed(row) ==
  <<row.id, row.title, row.url_null, row.url, row.score, row.found_date>>

C24_MarkedId ==
  IF dismissed' # dismissed THEN dismissed'[Len(dismissed')]
  ELSE IF bookmarked' # bookmarked THEN bookmarked'[Len(bookmarked')]
  ELSE NULL

C24_RowsImmutable ==
  /\ [][/\ Len(opportunities') >= Len(opportunities)
        /\ \A i \in 1..Len(opportunities) :
             /\ C24_Fixed(opportunities'[i]) = C24_Fixed(opportunities[i])
             /\ opportunities'[i].status # opportunities[i].status =>
                  opportunities[i].id = C24_MarkedId
        /\ \A i \in (Len(opportunities) + 1)..Len(opportunities') :
             /\ \A j \in 1..Len(opportunities) :
                  opportunities'[i].id > opportunities[j].id
             /\ opportunities'[i].status = "new"
        /\ Len(opportunities') > Len(opportunities) =>
             \E t \in Threads : pc[t] = "storing" /\ pc'[t] = "notifying"]_vars
  /\ [](\A i \in 1..Len(opportunities) :
          opportunities[i].status \in {"new", "dismissed", "bookmarked"})

C24_Witness ==
  /\ Len(opportunities) = 2
  /\ opportunities[1].status = "new"
  /\ opportunities[2].status = "bookmarked"
  /\ bookmarked = <<2>>

\* C25: get_opportunities(status, limit, min_score) returns at most limit
\* rows, each a stored row with score >= min_score, with the requested status
\* when one is given and with an id that is not in the dismissed log, in
\* order of score descending and then found_date descending; an eligible row
\* is left out only when limit rows that rank at or above it are returned.
C25_Eligible(row) ==
  /\ row.score >= last_call.min_score
  /\ (last_call.status # "" => row.status = last_call.status)
  /\ \A i \in 1..Len(dismissed) : dismissed[i] # row.id

C25_AtOrAbove(r1, r2) ==
  \/ r1.score > r2.score
  \/ r1.score = r2.score /\ r1.found_date >= r2.found_date

C25_QueryResult ==
  last_call.op = "get" =>
    LET out == last_call.out IN
    /\ Len(out) <= last_call.limit
    /\ \A i \in 1..Len(out) :
         /\ \E j \in 1..Len(opportunities) : opportunities[j] = out[i]
         /\ C25_Eligible(out[i])
    /\ \A i, j \in 1..Len(out) :
         i < j => out[i].id # out[j].id /\ C25_AtOrAbove(out[i], out[j])
    /\ \A j \in 1..Len(opportunities) :
         (C25_Eligible(opportunities[j]) /\
          \A i \in 1..Len(out) : out[i] # opportunities[j]) =>
            /\ Len(out) = last_call.limit
            /\ \A i \in 1..Len(out) : C25_AtOrAbove(out[i], opportunities[j])

C25_Witness ==
  /\ last_call.op = "get"
  /\ last_call.limit = 2
  /\ last_call.min_score = 500
  /\ Len(opportunities) = 3
  /\ \A j \in 1..3 : C25_Eligible(opportunities[j])
  /\ Len(last_call.out) = 2
  /\ last_call.out[1].score = last_call.out[2].score
  /\ last_call.out[1].found_date > last_call.out[2].found_date

\* C26: an opportunity included in a successfully sent digest is not included
\* in the digest of a later run: the digests recorded in email_log have no
\* opportunity in common.
C26_DigestOnlyUnseen ==
  \A i, j \in 1..Len(email_log) :
    i < j => Range(email_log[i].ids) \cap Range(email_log[j].ids) = {}

\* C27: whenever running is false after a run has ended, exactly one of
\* last_result and last_error is set.
C27_ResultXorError ==
  (~running /\ finished_at # NULL) =>
    ((last_result = NoResult) # (last_error = NO_ERROR))

\* C28: while running is true finished_at is null, and when running is false
\* after a run finished_at is not before started_at.
C28_FinishedAt ==
  /\ running => finished_at = NULL
  /\ (~running /\ finished_at # NULL) => finished_at >= started_at

\* C29: a stored opportunity is left out of get_opportunities() (no status
\* filter, no minimum score, limit above the table size) exactly when its
\* status is 'dismissed'.
C29_HiddenIffDismissed ==
  (last_call.op = "get" /\ last_call.status = "" /\ last_call.min_score = 0
     /\ last_call.limit > Len(opportunities)) =>
    \A j \in 1..Len(opportunities) :
      (\A i \in 1..Len(last_call.out) : last_call.out[i] # opportunities[j])
        <=> opportunities[j].status = "dismissed"

\* C30: get_bookmarked() returns each opportunity at most once and exactly
\* the opportunities whose status is 'bookmarked'.
C30_BookmarkedExactlyOnce ==
  last_call.op = "get_bookmarked" =>
    LET out == last_call.out IN
    /\ \A i, j \in 1..Len(out) : i # j => out[i].id # out[j].id
    /\ \A j \in 1..Len(opportunities) :
         (\E i \in 1..Len(out) : out[i] = opportunities[j])
           <=> opportunities[j].status = "bookmarked"

====
